---- MODULE Spec2Model ----
(***************************************************************************)
(* A model of the code standards auditor (bfx_local): the Rule Visitor,    *)
(* File Auditor and Tree Walker of internal.py and the Suppression Engine  *)
(* and orchestration of checker.py.  Python strings are TLA+ strings; Len, *)
(* SubSeq and \o give their characters.                                    *)
(***************************************************************************)
EXTENDS Integers, Sequences, FiniteSets, TLC

(***************************************************************************)
(* Python string primitives used by the code                               *)
(***************************************************************************)

\* s[i] (1-based), a one-character string
CharAt(s, i) == SubSeq(s, i, i)

\* t in s  (substring test of two str)
Contains(s, t) ==
    IF Len(t) = 0 THEN TRUE
    ELSE \E i \in 1..(Len(s) - Len(t) + 1) : SubSeq(s, i, i + Len(t) - 1) = t

\* s.startswith(p)
StartsWith(s, p) ==
    IF Len(p) = 0 THEN TRUE
    ELSE Len(p) <= Len(s) /\ SubSeq(s, 1, Len(p)) = p

\* s.endswith(p)
EndsWith(s, p) ==
    IF Len(p) = 0 THEN TRUE
    ELSE Len(p) <= Len(s) /\ SubSeq(s, Len(s) - Len(p) + 1, Len(s)) = p

\* s[i-1:] for a 1-based i
StrFrom(s, i) == IF i > Len(s) THEN "" ELSE SubSeq(s, i, Len(s))

\* s[:i] (the first i characters)
StrTo(s, i) == IF i <= 0 THEN "" ELSE SubSeq(s, 1, i)

\* the index of the first sep at or after i, Len(s) + 1 when there is none
NextSep(s, sep, i) ==
    LET hits == {j \in i..Len(s) : CharAt(s, j) = sep}
    IN  IF hits = {} THEN Len(s) + 1 ELSE CHOOSE j \in hits : \A k \in hits : j <= k

RECURSIVE SplitFrom(_, _, _)
SplitFrom(s, sep, i) ==
    LET j == NextSep(s, sep, i)
    IN  IF j > Len(s) THEN <<StrFrom(s, i)>>
        ELSE <<IF j > i THEN SubSeq(s, i, j - 1) ELSE "">> \o SplitFrom(s, sep, j + 1)

\* s.split(sep) for a one-character separator
StrSplit(s, sep) == SplitFrom(s, sep, 1)

RECURSIVE StrJoin(_, _)
\* sep.join(parts)
StrJoin(parts, sep) ==
    IF Len(parts) = 0 THEN ""
    ELSE IF Len(parts) = 1 THEN parts[1]
    ELSE parts[1] \o sep \o StrJoin(Tail(parts), sep)

Digits == <<"0", "1", "2", "3", "4", "5", "6", "7", "8", "9">>

IsDigit(c) == \E d \in 1..10 : Digits[d] = c

DigitVal(c) == (CHOOSE d \in 1..10 : Digits[d] = c) - 1

\* whether int(s) succeeds (no ValueError): an unsigned decimal numeral
IsInt(s) == Len(s) > 0 /\ \A i \in 1..Len(s) : IsDigit(CharAt(s, i))

RECURSIVE IntOf(_)
\* int(s) of a decimal numeral
IntOf(s) ==
    IF Len(s) = 0 THEN 0
    ELSE 10 * IntOf(StrTo(s, Len(s) - 1)) + DigitVal(CharAt(s, Len(s)))

RECURSIVE StrOfPos(_)
StrOfPos(n) == IF n = 0 THEN "" ELSE StrOfPos(n \div 10) \o Digits[(n % 10) + 1]

\* "{0}".format(n) for n >= 0
StrOf(n) == IF n = 0 THEN "0" ELSE StrOfPos(n)

\* the last index of character c in s, 0 when absent (s.rfind(c) + 1)
RFind(s, c) ==
    LET hits == {i \in 1..Len(s) : CharAt(s, i) = c}
    IN  IF hits = {} THEN 0 ELSE CHOOSE i \in hits : \A j \in hits : j <= i

Letters == "abcdefghijklmnopqrstuvwxyzABCDEFGHIJKLMNOPQRSTUVWXYZ"

\* [a-zA-Z]
IsAlpha(c) == Len(c) = 1 /\ Contains(Letters, c)

SeqToSet(q) == {q[i] : i \in 1..Len(q)}

RECURSIVE Flatten(_)
\* the concatenation of a sequence of sequences
Flatten(outputs) ==
    IF Len(outputs) = 0 THEN <<>> ELSE Head(outputs) \o Flatten(Tail(outputs))

(***************************************************************************)
(* Library calls of checker.py: os.path.normpath, os.path.split, re.search *)
(***************************************************************************)

RECURSIVE NormComps(_, _, _)
\* the component loop of posixpath.normpath
NormComps(comps, acc, initial) ==
    IF Len(comps) = 0 THEN acc
    ELSE LET c == Head(comps)
         IN  IF c = "" \/ c = "." THEN NormComps(Tail(comps), acc, initial)
             ELSE IF \/ c # ".."
                     \/ (~initial /\ Len(acc) = 0)
                     \/ (Len(acc) > 0 /\ acc[Len(acc)] = "..")
                  THEN NormComps(Tail(comps), Append(acc, c), initial)
                  ELSE IF Len(acc) > 0
                       THEN NormComps(Tail(comps), SubSeq(acc, 1, Len(acc) - 1), initial)
                       ELSE NormComps(Tail(comps), acc, initial)

\* os.path.normpath(path)
NormPath(path) ==
    IF path = "" THEN "."
    ELSE LET initial == StartsWith(path, "/")
             slashes == IF initial /\ StartsWith(path, "//") /\ ~StartsWith(path, "///")
                        THEN "//" ELSE IF initial THEN "/" ELSE ""
             joined  == slashes \o StrJoin(NormComps(StrSplit(path, "/"), <<>>, initial), "/")
         IN  IF joined = "" THEN "." ELSE joined

RECURSIVE RStripSlash(_)
\* head.rstrip('/')
RStripSlash(s) == IF EndsWith(s, "/") /\ Len(s) > 0 THEN RStripSlash(StrTo(s, Len(s) - 1)) ELSE s

\* os.path.split(p): <<head, tail>>
PathSplit(p) ==
    LET i    == RFind(p, "/")
        head == StrTo(p, i)
        tail == StrFrom(p, i + 1)
    IN  <<IF RStripSlash(head) # "" THEN RStripSlash(head) ELSE head, tail>>

\* the pattern p matches s at position i; p is literal text where '.' matches any character
MatchAt(p, s, i) ==
    /\ i + Len(p) - 1 <= Len(s)
    /\ \A k \in 1..Len(p) :
         \/ CharAt(p, k) = "." /\ CharAt(s, i + k - 1) # "\n"
         \/ CharAt(p, k) = CharAt(s, i + k - 1)

\* re.search(pattern, s) is not None, for patterns of literals, '.', a leading '^' and a trailing '$'
ReSearch(pattern, s) ==
    LET anchored == StartsWith(pattern, "^")
        p1       == IF anchored THEN StrFrom(pattern, 2) ELSE pattern
        toEnd    == Len(p1) > 0 /\ EndsWith(p1, "$")
        body     == IF toEnd THEN StrTo(p1, Len(p1) - 1) ELSE p1
        starts   == IF anchored THEN {1} ELSE 1..(Len(s) + 1)
    IN  \E i \in starts : MatchAt(body, s, i) /\ (toEnd => i + Len(body) - 1 = Len(s))

(***************************************************************************)
(* checker.py: the Suppression Engine                                      *)
(***************************************************************************)

\* CodeChecker.IGNORED_CODES
IGNORED_CODES == "W291,W292,W293,W391,E501"

CHECKS_FLAKE8 == "flake8"

CHECKS_BFX == "bfx"

\* CheckResult(type, output, num_violations, return_code)
CheckResult(type, output, num_violations, return_code) ==
    [type |-> type, output |-> output, num_violations |-> num_violations,
     return_code |-> return_code]

\* values = line.split(":"); filename = values[0]
LineFilename(line) == StrSplit(line, ":")[1]

\* line_number = values[1]
LineNumber(line) == StrSplit(line, ":")[2]

\* error_code = values[3].split(" ")[1]
LineCode(line) == StrSplit(StrSplit(line, ":")[4], " ")[2]

\* LineErrorEntry(code, string)
LineErrorEntry(code, string) == [code |-> code, string |-> string]

\* for number, line in enumerate(offending_file): file_lines[number] = line
\* (the lines of the text, each keeping its newline, keyed from 0)
FileLinesOf(text) ==
    LET parts == StrSplit(text, "\n")
        n     == IF parts[Len(parts)] = "" THEN Len(parts) - 1 ELSE Len(parts)
    IN  [number \in 0..(n - 1) |->
            IF number + 1 < Len(parts) THEN parts[number + 1] \o "\n" ELSE parts[number + 1]]

\* line = line_dict[i].split("#"); "#".join(line[1:]) when len(line) > 1
CommentPart(text) ==
    LET line == StrSplit(text, "#")
    IN  IF Len(line) > 1 THEN StrJoin(Tail(line), "#") ELSE ""

\* __get_comment_string reading the index as if it were keyed from 1
GetCommentString_keyedFromOne(line_dict, line_number) ==
    LET part(i) == IF i \in DOMAIN line_dict THEN CommentPart(line_dict[i]) ELSE ""
    IN  part(line_number - 3) \o part(line_number - 2) \o part(line_number - 1)

\* CodeChecker.__get_comment_string(line_dict, line_number)
GetCommentString(line_dict, line_number) ==
    LET part(i) == IF i \in DOMAIN line_dict THEN CommentPart(line_dict[i]) ELSE ""
    IN  part(line_number - 2) \o part(line_number - 1) \o part(line_number)

\* "not self.ignore": None or an empty dict
IgnoreIsFalsy(ign) == ign.isNone \/ ign.keys = {}

\* CodeChecker.__should_ignore_file(file_path) under the policy ign
ShouldIgnoreFile(ign, file_path0) ==
    IF IgnoreIsFalsy(ign) THEN FALSE
    ELSE LET file_path == NormPath(file_path0)
             path      == PathSplit(file_path)[1]
             name      == PathSplit(file_path)[2]
         IN  \/ "files" \in ign.keys /\ name \in SeqToSet(ign.files)
             \/ "files" \in ign.keys /\ file_path \in SeqToSet(ign.files)
             \/ /\ "directories" \in ign.keys
                /\ \E directory \in SeqToSet(ign.directories) :
                       Contains(path, NormPath(directory \o "/"))
             \/ /\ "patterns" \in ign.keys
                /\ \E pattern \in SeqToSet(ign.patterns) : ReSearch(pattern, file_path)

\* the file_dict built by the first loop of __remove_exceptions
FileDictOf(rs) ==
    LET all     == Flatten([k \in 1..Len(rs) |-> rs[k].output])
        kept    == SelectSeq(all, LAMBDA line : LineFilename(line) # "")
        names   == {LineFilename(kept[i]) : i \in 1..Len(kept)}
        of(f)   == SelectSeq(kept, LAMBDA line : LineFilename(line) = f)
        at(f,n) == SelectSeq(of(f), LAMBDA line : IntOf(LineNumber(line)) = n)
    IN  [f \in names |->
            [n \in {IntOf(LineNumber(of(f)[i])) : i \in 1..Len(of(f))} |->
                [i \in 1..Len(at(f, n)) |->
                    LineErrorEntry(LineCode(at(f, n)[i]), at(f, n)[i])]]]

\* ignored_codes = IGNORED_CODES.split(","); ignored_codes += self.ignore["codes"]
\* (TypeError for a None policy and KeyError for an absent key are passed over)
IgnoredCodesOf(ign) ==
    StrSplit(IGNORED_CODES, ",") \o
        (IF ~ign.isNone /\ "codes" \in ign.keys THEN ign.codes ELSE <<>>)

\* the entries of one offending line that the comment string approves
ApprovedEntries(error_entries, comment_string) ==
    LET hit == SelectSeq(error_entries, LAMBDA e : Contains(comment_string, e.code))
    IN  [i \in 1..Len(hit) |-> hit[i].string]

\* the final filter's condition without the blacklist test
KeepLine_noBlacklist(line, approved, ign, codes) ==
    /\ line \notin SeqToSet(approved)
    /\ ~ShouldIgnoreFile(ign, LineFilename(line))

\* the condition of the final filter pass for one line
KeepLine(line, approved, ign, codes) ==
    /\ line \notin SeqToSet(approved)
    /\ ~ShouldIgnoreFile(ign, LineFilename(line))
    /\ LineCode(line) \notin SeqToSet(codes)

\* the final filter pass applied to one result
FilterResult(result, approved, ign, codes) ==
    LET new_output == SelectSeq(result.output, LAMBDA line : KeepLine(line, approved, ign, codes))
    IN  [result EXCEPT !.output = new_output, !.num_violations = Len(new_output)]

(***************************************************************************)
(* internal.py: the rendered violation line                                *)
(***************************************************************************)

\* the message of InternalStandardsChecker.__add_error for a code
ErrorText(type) ==
    CASE type = "BE001" -> "string contains absolute path"
      [] type = "BE002" -> "code does not compile"
      [] type = "BE003" -> "line longer than 120 characters"
      [] type = "BE004" -> "reloading modules in production code"
      [] type = "BE005" -> "file does not contain encoding header: \"# -*- coding: utf-8 -*-\""
      [] type = "BE006" -> "local imports should be relative, not absolute"
      [] type = "BE100" -> "project does not contain .gitignore file"
      [] type = "BE101" -> ".gitignore file not ignoring *.pyc files"
      [] type = "BE102" -> ".gitignore file not ignoring .*.swp files"
      [] type = "BE103" -> ".gitignore file not ignoring .idea files (pycharm project files)"
      [] type = "BE104" -> ".gitignore file not ignoring files ending in '~'"
      [] OTHER -> "unknown error"

\* "{0}:{1}:{2}: {3} {4}".format(relative_filepath, line, column, type, text)
Rendered(relative_filepath, line, column, type) ==
    relative_filepath \o ":" \o StrOf(line) \o ":" \o StrOf(column) \o ": "
        \o type \o " " \o ErrorText(type)

(***************************************************************************)
(* internal.py: the Rule Visitor over a syntax tree                        *)
(*                                                                         *)
(* A node of the tree is a record: kind is the node's class, lineno and    *)
(* col_offset its position, s the text it carries (Str.s, Name.id,         *)
(* Attribute.attr, ImportFrom.module with None as ""), names the aliases   *)
(* of an Import and kids its child nodes in field order (for a Call the    *)
(* callee first, then the positional arguments).                           *)
(***************************************************************************)

AstNode(kind, lineno, col_offset, s, names, kids) ==
    [kind |-> kind, lineno |-> lineno, col_offset |-> col_offset, s |-> s,
     names |-> names, kids |-> kids]

\* Violation(code, line, column, value)
Violation(code, line, column, value) ==
    [code |-> code, line |-> line, column |-> column, value |-> value]

\* node.func of a Call
CallFunc(n) == n.kids[1]

\* node.args of a Call
CallArgs(n) == Tail(n.kids)

\* re.search(r"(^[a-zA-Z]:[/\\])|(^[/\\][a-zA-Z])", s)
IsAbsolutePath(s) ==
    \/ /\ Len(s) >= 3
       /\ IsAlpha(CharAt(s, 1))
       /\ CharAt(s, 2) = ":"
       /\ CharAt(s, 3) \in {"/", "\\"}
    \/ /\ Len(s) >= 2
       /\ CharAt(s, 1) \in {"/", "\\"}
       /\ IsAlpha(CharAt(s, 2))

\* NodeVisitor.visit_Str(node), for a node that has the attribute s
VisitStr(n) ==
    IF IsAbsolutePath(n.s)
    THEN <<Violation("BE001", n.lineno, n.col_offset, n.s)>>
    ELSE <<>>

RECURSIVE VisitArgs(_)
\* for arg in node.args: self.visit_Str(arg), inside one try: the AttributeError of an
\* argument without the attribute s ends the loop
VisitArgs(args) ==
    IF Len(args) = 0 THEN <<>>
    ELSE IF Head(args).kind # "Str" THEN <<>>
    ELSE VisitStr(Head(args)) \o VisitArgs(Tail(args))

\* NodeVisitor.visit_Call(node); node.func.id raises AttributeError unless func is a Name
VisitCall(n) ==
    (IF CallFunc(n).kind = "Name" /\ CallFunc(n).s = "reload"
     THEN <<Violation("BE004", n.lineno, n.col_offset, "reload")>>
     ELSE <<>>)
    \o VisitArgs(CallArgs(n))

\* "self.module" as a condition: neither None nor empty
ModuleIsSet(m) == m.some /\ m.name # ""

\* NodeVisitor.visit_Import(node)
VisitImport(n, m) ==
    LET hit == SelectSeq(n.names,
                   LAMBDA name : name # "" /\ ModuleIsSet(m) /\ StartsWith(name, m.name))
    IN  [i \in 1..Len(hit) |-> Violation("BE006", n.lineno, n.col_offset, hit[i])]

\* NodeVisitor.visit_ImportFrom(node)
VisitImportFrom(n, m) ==
    IF n.s # "" /\ ModuleIsSet(m) /\ StartsWith(n.s, m.name)
    THEN <<Violation("BE006", n.lineno, n.col_offset, n.s)>>
    ELSE <<>>

RECURSIVE Visit(_, _)
\* ast.NodeVisitor.visit(node): the visit_<class> method when the visitor has one,
\* generic_visit (every child node, in field order) otherwise
Visit(n, m) ==
    CASE n.kind = "Str"        -> VisitStr(n)
      [] n.kind = "Call"       -> VisitCall(n)
      [] n.kind = "Import"     -> VisitImport(n, m)
      [] n.kind = "ImportFrom" -> VisitImportFrom(n, m)
      [] OTHER -> Flatten([i \in 1..Len(n.kids) |-> Visit(n.kids[i], m)])

\* os.path.relpath(filepath, directory) for a path at or below directory
RelPath(filepath, directory) ==
    IF filepath = directory THEN "."
    ELSE IF StartsWith(filepath, directory \o "/")
         THEN StrFrom(filepath, Len(directory) + 2)
         ELSE filepath

\* os.path.join(".", os.path.relpath(filepath, self.directory)), "" for no filepath
RelativeFilepath(filepath, directory) ==
    IF filepath = "" THEN "" ELSE "./" \o RelPath(filepath, directory)

\* InternalStandardsChecker.__add_error: the errors after the call
\* (self.ignore is "".split(","), which holds no code)
AddError(errs, type, filepath, directory, line, column) ==
    IF type \in {""} THEN errs
    ELSE Append(errs, Rendered(RelativeFilepath(filepath, directory), line, column, type))

RECURSIVE AddViolations(_, _, _, _)
\* for violation in violations: self.__add_error(violation.code, filepath, ...)
AddViolations(errs, vs, filepath, directory) ==
    IF Len(vs) = 0 THEN errs
    ELSE AddViolations(
             AddError(errs, Head(vs).code, filepath, directory, Head(vs).line, Head(vs).column),
             Tail(vs), filepath, directory)

(***************************************************************************)
(* internal.py: the File Auditor and the Tree Walker                       *)
(*                                                                         *)
(* A file on disk is a record: openable (open() succeeds), readable        *)
(* (read() succeeds), contents, parses (ast.parse succeeds) and tree (what *)
(* ast.parse returns).                                                     *)
(***************************************************************************)

SourceFile(openable, readable, contents, parses, tree) ==
    [openable |-> openable, readable |-> readable, contents |-> contents,
     parses |-> parses, tree |-> tree]

\* the limit of "if len(line) > 120"
LineLimit == 120

Uppers == "ABCDEFGHIJKLMNOPQRSTUVWXYZ"

LowerOf(c) ==
    IF Len(c) = 1 /\ Contains(Uppers, c)
    THEN CharAt(Letters, CHOOSE i \in 1..26 : CharAt(Uppers, i) = c)
    ELSE c

RECURSIVE StrLower(_)
\* s.lower()
StrLower(s) == IF Len(s) = 0 THEN "" ELSE LowerOf(CharAt(s, 1)) \o StrLower(StrFrom(s, 2))

\* os.path.splitext(file)[1], for a name without directories
SplitExt(file) ==
    LET dot     == RFind(file, ".")
        leading == \A i \in 1..(dot - 1) : CharAt(file, i) = "."
    IN  IF dot = 0 \/ leading THEN "" ELSE StrFrom(file, dot)

\* os.path.dirname(p)
DirName(p) == PathSplit(p)[1]

\* self.module_dict.get(key): None when the key is absent
ModuleGet(module_dict, key) ==
    IF key \in DOMAIN module_dict
    THEN [some |-> TRUE, name |-> module_dict[key]]
    ELSE [some |-> FALSE, name |-> ""]

\* __add_dir_to_modules recording the bare directory name whatever the parent's entry
AddDirToModules_flat(module_dict, dir) ==
    [d \in DOMAIN module_dict \cup {dir} |->
        IF d = dir THEN PathSplit(dir)[2] ELSE module_dict[d]]

\* InternalStandardsChecker.__add_dir_to_modules(dir): the module_dict after the call
AddDirToModules(module_dict, dir) ==
    LET parent  == PathSplit(dir)[1]
        dirname == PathSplit(dir)[2]
        value   == IF parent \in DOMAIN module_dict
                   THEN module_dict[parent] \o "." \o dirname
                   ELSE dirname
    IN  [d \in DOMAIN module_dict \cup {dir} |-> IF d = dir THEN value ELSE module_dict[d]]

RECURSIVE CheckLineLengths_atLimit(_, _, _, _, _)
\* the line-length loop flagging a line that is exactly at the limit
CheckLineLengths_atLimit(errs, lines, line_number, filepath, directory) ==
    IF line_number >= Len(lines) THEN errs
    ELSE CheckLineLengths_atLimit(
             IF Len(lines[line_number + 1]) >= LineLimit
             THEN AddError(errs, "BE003", filepath, directory, line_number + 1, 0)
             ELSE errs,
             lines, line_number + 1, filepath, directory)

RECURSIVE CheckLineLengths(_, _, _, _, _)
\* internal.py 123-128: BE003 for every line longer than the limit; line_number counts from 0
CheckLineLengths(errs, lines, line_number, filepath, directory) ==
    IF line_number >= Len(lines) THEN errs
    ELSE CheckLineLengths(
             IF Len(lines[line_number + 1]) > LineLimit
             THEN AddError(errs, "BE003", filepath, directory, line_number + 1, 0)
             ELSE errs,
             lines, line_number + 1, filepath, directory)

\* internal.py 129-136: BE005 when no encoding header is in the first two lines and the
\* first line is empty
CheckEncoding(errs, lines, filepath, directory) ==
    LET has_encoding == \E i \in 1..Len(lines) :
                            i <= 2 /\ Contains(lines[i], "# -*- coding: utf-8 -*-")
    IN  IF ~has_encoding /\ Len(lines) > 1 /\ lines[1] = ""
        THEN AddError(errs, "BE005", filepath, directory, 1, 0)
        ELSE errs

\* InternalStandardsChecker.__find_errors(node, filepath, module): the errors after it
FindErrors(errs, tree, filepath, directory, module_dict) ==
    AddViolations(errs, Visit(tree, ModuleGet(module_dict, DirName(filepath))),
                  filepath, directory)

\* InternalStandardsChecker.__check_file(filepath): raised tells that open() raised, which
\* nothing catches; errors is self.errors after the call
CheckFile(errs, file, filepath, directory, module_dict) ==
    IF ~file.openable THEN [raised |-> TRUE, errors |-> errs]
    ELSE IF ~file.readable
    THEN [raised |-> FALSE, errors |-> AddError(errs, "BE002", filepath, directory, 0, 0)]
    ELSE LET lines == StrSplit(file.contents, "\n")
             e1    == CheckLineLengths(errs, lines, 0, filepath, directory)
             e2    == CheckEncoding(e1, lines, filepath, directory)
         IN  IF file.parses
             THEN [raised |-> FALSE,
                   errors |-> FindErrors(e2, file.tree, filepath, directory, module_dict)]
             ELSE [raised |-> FALSE,
                   errors |-> AddError(e2, "BE002", filepath, directory, 0, 0)]

\* InternalStandardsChecker.__check_root: the errors after it; gitignore is the text of
\* the .gitignore file when there is one
CheckRootErrors(errs, hasGitignore, gitignore, directory) ==
    IF hasGitignore
    THEN LET lines == SeqToSet(StrSplit(gitignore, "\n"))
             e1 == IF "*.pyc" \notin lines THEN AddError(errs, "BE101", "", directory, 0, 0) ELSE errs
             e2 == IF ".*.swp" \notin lines THEN AddError(e1, "BE102", "", directory, 0, 0) ELSE e1
             e3 == IF ".idea" \notin lines THEN AddError(e2, "BE103", "", directory, 0, 0) ELSE e2
         IN  IF "*~" \notin lines THEN AddError(e3, "BE104", "", directory, 0, 0) ELSE e3
    ELSE AddError(errs, "BE100", "", directory, 0, 0)

(***************************************************************************)
(* checker.py: the report and the VCS listing                              *)
(***************************************************************************)

\* the printable characters of the report lines in the order str comparison gives them
Ascii ==
    " !#$%&'()*+,-./0123456789:;<=>?@ABCDEFGHIJKLMNOPQRSTUVWXYZ[" \o "\\" \o "]^_"
        \o "abcdefghijklmnopqrstuvwxyz{|}~"

Ord(c) == CHOOSE i \in 1..Len(Ascii) : CharAt(Ascii, i) = c

\* cmp(a, b) of two str values: -1, 0 or 1
StrCmp(a, b) ==
    LET n     == IF Len(a) < Len(b) THEN Len(a) ELSE Len(b)
        diffs == {i \in 1..n : CharAt(a, i) # CharAt(b, i)}
    IN  IF diffs = {}
        THEN (IF Len(a) > Len(b) THEN 1 ELSE IF Len(b) > Len(a) THEN -1 ELSE 0)
        ELSE LET i == CHOOSE k \in diffs : \A j \in diffs : k <= j
             IN  IF Ord(CharAt(a, i)) > Ord(CharAt(b, i)) THEN 1 ELSE -1

RECURSIVE SmartSortFrom(_, _, _)
\* checker.py 60-74: the loop of smartsort from index i (counted from 1); raised tells
\* that a_list[i] or b_list[i] raised IndexError, which smartsort does not catch
SmartSortFrom(a_list, b_list, i) ==
    LET length == IF Len(a_list) > Len(b_list) THEN Len(a_list) ELSE Len(b_list)
    IN  IF i > length THEN [raised |-> FALSE, value |-> 0]
        ELSE IF i > Len(a_list) \/ i > Len(b_list) THEN [raised |-> TRUE, value |-> 0]
        ELSE IF IsInt(a_list[i]) /\ IsInt(b_list[i])
        THEN IF IntOf(a_list[i]) > IntOf(b_list[i]) THEN [raised |-> FALSE, value |-> 1]
             ELSE IF IntOf(b_list[i]) > IntOf(a_list[i]) THEN [raised |-> FALSE, value |-> -1]
             ELSE SmartSortFrom(a_list, b_list, i + 1)
        ELSE IF StrCmp(a_list[i], b_list[i]) # 0
        THEN [raised |-> FALSE, value |-> StrCmp(a_list[i], b_list[i])]
        ELSE SmartSortFrom(a_list, b_list, i + 1)

\* smartsort(a, b)
SmartSort(a, b) == SmartSortFrom(StrSplit(a, ":"), StrSplit(b, ":"), 1)

RECURSIVE RunFrom(_, _, _)
\* list.sort finding the run the list starts with: q[i] is compared with q[i - 1]
RunFrom(q, i, descending) ==
    IF i > Len(q) THEN [raised |-> FALSE, n |-> i - 1, descending |-> descending]
    ELSE LET c == SmartSort(q[i], q[i - 1])
         IN  IF c.raised THEN [raised |-> TRUE, n |-> i - 1, descending |-> descending]
             ELSE IF (c.value < 0) = descending THEN RunFrom(q, i + 1, descending)
             ELSE [raised |-> FALSE, n |-> i - 1, descending |-> descending]

CountRun(q) ==
    IF Len(q) <= 1 THEN [raised |-> FALSE, n |-> Len(q), descending |-> FALSE]
    ELSE LET c == SmartSort(q[2], q[1])
         IN  IF c.raised THEN [raised |-> TRUE, n |-> 1, descending |-> FALSE]
             ELSE RunFrom(q, 3, c.value < 0)

RECURSIVE BinarySearch(_, _, _, _)
\* list.sort looking for the place of pivot among the sorted q[l + 1 .. r]
BinarySearch(q, pivot, l, r) ==
    IF l >= r THEN [raised |-> FALSE, pos |-> l]
    ELSE LET p == l + ((r - l) \div 2)
             c == SmartSort(pivot, q[p + 1])
         IN  IF c.raised THEN [raised |-> TRUE, pos |-> l]
             ELSE IF c.value < 0 THEN BinarySearch(q, pivot, l, p)
             ELSE BinarySearch(q, pivot, p + 1, r)

RECURSIVE BinarySort(_, _)
\* list.sort inserting q[start + 1 ..] into the sorted q[1 .. start]
BinarySort(q, start) ==
    IF start >= Len(q) THEN [raised |-> FALSE, list |-> q]
    ELSE LET pivot == q[start + 1]
             s     == BinarySearch(q, pivot, 0, start)
         IN  IF s.raised THEN [raised |-> TRUE, list |-> q]
             ELSE BinarySort(SubSeq(q, 1, s.pos) \o <<pivot>> \o SubSeq(q, s.pos + 1, start)
                                 \o SubSeq(q, start + 2, Len(q)),
                             start + 1)

Reversed(q) == [i \in 1..Len(q) |-> q[Len(q) + 1 - i]]

\* violations.sort(cmp=smartsort), for a list shorter than 64: the leading run, reversed
\* when it descends, and a binary insertion of the rest
ListSort(q) ==
    LET run == CountRun(q)
    IN  IF run.raised THEN [raised |-> TRUE, list |-> q]
        ELSE BinarySort(IF run.descending
                        THEN Reversed(SubSeq(q, 1, run.n)) \o SubSeq(q, run.n + 1, Len(q))
                        ELSE q,
                        run.n)

RECURSIVE TotalOf(_)
TotalOf(rs) == IF Len(rs) = 0 THEN 0 ELSE Head(rs).num_violations + TotalOf(Tail(rs))

\* CodeChecker.__create_log(results): raised tells that the sort raised
CreateLog(rs) ==
    LET sorted == ListSort(Flatten([k \in 1..Len(rs) |-> rs[k].output]))
        counts == [k \in 1..Len(rs) |->
                      rs[k].type \o " violations: " \o StrOf(rs[k].num_violations)]
        lines  == <<"Code Standards Violation Report", "">>
                    \o (IF Len(sorted.list) > 0 THEN sorted.list \o <<"">> ELSE <<>>)
                    \o counts
                    \o <<"total violations: " \o StrOf(TotalOf(rs))>>
    IN  [raised |-> sorted.raised, log |-> StrJoin(lines, "\n")]

\* the (?:py|gitignore|violations.ignore) ending of the name patterns, after "\."
HasListedSuffix(name) ==
    \/ EndsWith(name, ".py")
    \/ EndsWith(name, ".gitignore")
    \/ /\ Len(name) >= 18
       /\ StartsWith(StrFrom(name, Len(name) - 17), ".violations")
       /\ EndsWith(name, "ignore")

RECURSIVE SkipWhile(_, _, _)
\* the first index at or after i whose character is not in chars
SkipWhile(s, chars, i) ==
    IF i <= Len(s) /\ Contains(chars, CharAt(s, i)) THEN SkipWhile(s, chars, i + 1) ELSE i

\* checker.py 305-312: modified.findall(files) over the lines that a newline ends; with
\* only_staged a name follows a status of letters A and M and blanks
ListedNames(out, only_staged) ==
    LET parts == StrSplit(out, "\n")
        lines == SubSeq(parts, 1, Len(parts) - 1)
        nameOf(line) ==
            IF only_staged
            THEN LET i == SkipWhile(line, "AM", 1)
                     j == SkipWhile(line, " \t", i)
                 IN  IF i > 1 /\ j > i THEN StrFrom(line, j) ELSE ""
            ELSE line
        names == [k \in 1..Len(lines) |-> nameOf(lines[k])]
    IN  SelectSeq(names, HasListedSuffix)

\* CodeChecker.namespace: the namespace of the remote url, "" when the url has no "/"
NamespaceOf(url) ==
    LET parts == StrSplit(url, "/")
    IN  IF Len(parts) < 2 THEN ""
        ELSE LET ns == StrSplit(parts[Len(parts) - 1], ":") IN ns[Len(ns)]

(***************************************************************************)
(* State                                                                   *)
(***************************************************************************)

VARIABLES
    pc,             \* the position of the running operation
    ignore,         \* CodeChecker.ignore: the Ignore Policy
    worktree,       \* the files under CodeChecker.directory: path -> text
    unfiltered,     \* the Check Results handed to __remove_exceptions
    results,        \* the Check Results as __remove_exceptions has them now
    run,            \* which call of __remove_exceptions is running
    ignored_codes,  \* local of __remove_exceptions
    file_dict,      \* local of __remove_exceptions
    ignored_errors, \* local of __remove_exceptions
    todo_files,     \* the keys of file_dict the loop has not reached yet
    cur_file,       \* the file the loop is at
    file_lines,     \* local of __remove_exceptions: line index of cur_file
    todo_lines,     \* the offending lines of cur_file the loop has not reached yet
    first_output,   \* what the first call returned
    ignorefile,     \* the policy file as CodeChecker.__init__ loaded it
    vpc,            \* the position of InternalStandardsChecker.__find_errors
    node,           \* the syntax tree ast.parse returned
    module,         \* NodeVisitor.module: the enclosing package name, or None
    violations,     \* NodeVisitor.violations
    errors,         \* InternalStandardsChecker.errors
    wpc,            \* the position of InternalStandardsChecker.run_checks
    directory,      \* InternalStandardsChecker.directory
    disk,           \* the files under the directory: path -> file
    walk_todo,      \* what os.walk has still to yield: <<subdir, files>> entries
    cur_subdir,     \* the directory os.walk yielded last
    files_todo,     \* the files of cur_subdir the loop has not reached yet
    module_dict,    \* InternalStandardsChecker.module_dict
    audited,        \* the files for which __check_file has returned
    rpc,            \* the position of CodeChecker.run_checks
    options,        \* the fields CodeChecker.__init__ sets from its arguments
    env,            \* how the collaborators (git, flake8) behave in this run
    index,          \* the VCS index: name -> file
    listed,         \* the listed names __run_git_checks has still to write
    scan_dir,       \* the directory handed to __run_checks
    checks_todo,    \* the checks of self.checks the loop has not reached yet
    run_results,    \* local results of __run_checks
    log,            \* CodeChecker.log
    returned        \* what run_checks returned

supVars == <<pc, ignore, worktree, unfiltered, results, run, ignored_codes, file_dict,
             ignored_errors, todo_files, cur_file, file_lines, todo_lines, first_output,
             ignorefile>>

visVars == <<vpc, node, module, violations>>

walkVars == <<wpc, directory, disk, walk_todo, cur_subdir, files_todo, module_dict, audited>>

runVars_but_rpc == <<options, env, index, listed, scan_dir, checks_todo, run_results, log,
                     returned>>

runVars == <<rpc, runVars_but_rpc>>

vars == <<supVars, visVars, errors, walkVars, runVars>>

(***************************************************************************)
(* Bounds and input pools of the Suppression Engine                        *)
(***************************************************************************)

\* the longest audited file, in lines
MaxLines == 3

\* the physical lines a file is made of: each holds an absolute-path literal
LinePool == {"p = '/tmp'  # BE001 ok", "BE001 = '/tmp#'"}

RECURSIVE JoinLines(_)
JoinLines(q) == IF Len(q) = 0 THEN "" ELSE Head(q) \o "\n" \o JoinLines(Tail(q))

Contents == {JoinLines(q) : q \in UNION {[1..n -> LinePool] : n \in 1..MaxLines}}

NumLines(text) == Len(StrSplit(text, "\n")) - 1

NoPolicy == [isNone |-> TRUE, keys |-> {}, codes |-> <<>>, files |-> <<>>,
             directories |-> <<>>, patterns |-> <<>>]

Policy(keys, codes, files, directories, patterns) ==
    [isNone |-> FALSE, keys |-> keys, codes |-> codes, files |-> files,
     directories |-> directories, patterns |-> patterns]

Policies ==
    { NoPolicy,
      Policy({"codes"}, <<"BE001">>, <<>>, <<>>, <<>>),
      Policy({"files"}, <<>>, <<"a.py">>, <<>>, <<>>),
      Policy({"directories"}, <<>>, <<>>, <<"lib">>, <<>>),
      Policy({"codes", "patterns"}, <<"N806">>, <<>>, <<>>, <<"^mylib/b.py$">>) }

\* what the style checker may report
Flake8Outputs ==
    { <<"./a.py:1:80: E501 line too long (130 > 79 characters)">>,
      <<"./a.py:1:1: N806 variable in function should be lowercase">> }

\* what the internal checker may report besides the literal of a.py
OtherBfxOutputs ==
    { <<Rendered("./mylib/b.py", 1, 0, "BE004"), Rendered("./mylib/b.py", 3, 4, "BE001")>>,
      <<Rendered("./gone.py", 1, 0, "BE002")>>,
      <<Rendered("", 0, 0, "BE100")>> }

ResultOf(type, output) ==
    CheckResult(type, output, Len(output), IF Len(output) > 0 THEN 1 ELSE 0)

(***************************************************************************)
(* CodeChecker.__remove_exceptions, step by step                           *)
(***************************************************************************)

\* the constructor arguments of CodeChecker
Options(use_git, only_staged, prune_errors, write_log, add_log_to_git, required_namespace) ==
    [use_git |-> use_git, only_staged |-> only_staged, prune_errors |-> prune_errors,
     write_log |-> write_log, add_log_to_git |-> add_log_to_git,
     required_namespace |-> required_namespace, checks |-> <<CHECKS_FLAKE8, CHECKS_BFX>>,
     logfile_name |-> ".violations"]

\* the collaborators: git is "ok", "not_a_repo" (every command exits nonzero and prints
\* nothing) or "missing" (Popen raises OSError); flake8 is "clean", "violations" or
\* "raises"; remote is what git config prints for remote.origin.url
Env(git, flake8, remote) == [git |-> git, flake8 |-> flake8, remote |-> remote]

NoReturn == [some |-> FALSE, results |-> <<>>]

\* CodeChecker before it is constructed
RunIdle ==
    /\ rpc = "idle"
    /\ options = Options(FALSE, FALSE, TRUE, FALSE, FALSE, "")
    /\ env = Env("ok", "clean", "")
    /\ index = [f \in {} |-> 0]
    /\ listed = <<>>
    /\ scan_dir = ""
    /\ checks_todo = <<>>
    /\ run_results = <<>>
    /\ log = ""
    /\ returned = NoReturn

\* the Rule Visitor before any file is parsed
VisIdle ==
    /\ vpc = "idle"
    /\ node = <<>>
    /\ module = [some |-> FALSE, name |-> ""]
    /\ violations = <<>>

\* the Tree Walker before run_checks
WalkIdle ==
    /\ wpc = "idle"
    /\ directory = ""
    /\ disk = [f \in {} |-> 0]
    /\ walk_todo = <<>>
    /\ cur_subdir = ""
    /\ files_todo = <<>>
    /\ module_dict = [d \in {} |-> ""]
    /\ audited = {}

InitSuppress ==
    /\ ignore \in Policies
    /\ \E text \in Contents, n \in 1..MaxLines, fo \in Flake8Outputs, bo \in OtherBfxOutputs :
         /\ n <= NumLines(text)
         /\ worktree = [f \in {"./a.py", "./mylib/b.py"} |->
                           IF f = "./a.py" THEN text
                           ELSE "reload(lib)  # BE004\n\nq = '/tmp'\n"]
         /\ unfiltered = <<ResultOf(CHECKS_FLAKE8, fo),
                           ResultOf(CHECKS_BFX, <<Rendered("./a.py", n, 2, "BE001")>> \o bo)>>
    /\ results = unfiltered
    /\ pc = "start"
    /\ run = 1
    /\ ignored_codes = <<>>
    /\ file_dict = <<>>
    /\ ignored_errors = <<>>
    /\ todo_files = {}
    /\ cur_file = ""
    /\ file_lines = <<>>
    /\ todo_lines = {}
    /\ first_output = <<>>
    /\ ignorefile = ignore

\* checker.py 213-219: the blacklist
SetUpIgnoredCodes ==
    /\ pc = "start"
    /\ ignored_codes' = IgnoredCodesOf(ignore)
    /\ ignore' = ignore
    /\ pc' = "build"
    /\ UNCHANGED <<worktree, unfiltered, results, run, file_dict, ignored_errors,
                   todo_files, cur_file, file_lines, todo_lines, first_output, ignorefile>>
    /\ UNCHANGED <<visVars, errors, walkVars, runVars>>

\* checker.py 234-259: file_dict and the empty ignored_errors
BuildFileDict ==
    /\ pc = "build"
    /\ file_dict' = FileDictOf(results)
    /\ ignored_errors' = <<>>
    /\ todo_files' = DOMAIN file_dict'
    /\ pc' = "files"
    /\ UNCHANGED <<ignore, worktree, unfiltered, results, run, ignored_codes,
                   cur_file, file_lines, todo_lines, first_output, ignorefile>>
    /\ UNCHANGED <<visVars, errors, walkVars, runVars>>

\* checker.py 260-266: the next file of file_dict (in the dict's order) is opened and indexed
OpenOffendingFile ==
    /\ pc = "files"
    /\ \E filename \in todo_files :
         IF filename \in DOMAIN worktree
         THEN /\ file_lines' = FileLinesOf(worktree[filename])
              /\ cur_file' = filename
              /\ todo_lines' = DOMAIN file_dict[filename]
              /\ todo_files' = todo_files \ {filename}
              /\ pc' = "lines"
         ELSE /\ pc' = "raised"
              /\ UNCHANGED <<file_lines, cur_file, todo_lines, todo_files>>
    /\ UNCHANGED <<ignore, worktree, unfiltered, results, run, ignored_codes, file_dict,
                   ignored_errors, first_output, ignorefile>>
    /\ UNCHANGED <<visVars, errors, walkVars, runVars>>

\* the approval loop assigning ignored_errors instead of appending to it
ApproveLine_assigns ==
    /\ pc = "lines"
    /\ \E line_number \in todo_lines :
         /\ ignored_errors' =
                ApprovedEntries(file_dict[cur_file][line_number],
                                GetCommentString(file_lines, line_number))
         /\ todo_lines' = todo_lines \ {line_number}
         /\ pc' = IF todo_lines' = {} THEN "files" ELSE "lines"
    /\ UNCHANGED <<ignore, worktree, unfiltered, results, run, ignored_codes, file_dict,
                   todo_files, cur_file, file_lines, first_output, ignorefile>>
    /\ UNCHANGED <<visVars, errors, walkVars, runVars>>

\* checker.py 271-277: the next offending line of the open file (in the dict's order)
ApproveLine ==
    /\ pc = "lines"
    /\ \E line_number \in todo_lines :
         /\ ignored_errors' = ignored_errors \o
                ApprovedEntries(file_dict[cur_file][line_number],
                                GetCommentString(file_lines, line_number))
         /\ todo_lines' = todo_lines \ {line_number}
         /\ pc' = IF todo_lines' = {} THEN "files" ELSE "lines"
    /\ UNCHANGED <<ignore, worktree, unfiltered, results, run, ignored_codes, file_dict,
                   todo_files, cur_file, file_lines, first_output, ignorefile>>
    /\ UNCHANGED <<visVars, errors, walkVars, runVars>>

\* checker.py 279-293: the final filter pass and the return
FilterResults ==
    /\ pc = "files"
    /\ todo_files = {}
    /\ results' = [k \in 1..Len(results) |->
                      FilterResult(results[k], ignored_errors, ignore, ignored_codes)]
    /\ pc' = "done"
    /\ UNCHANGED <<ignore, worktree, unfiltered, run, ignored_codes, file_dict,
                   ignored_errors, todo_files, cur_file, file_lines, todo_lines, first_output, ignorefile>>
    /\ UNCHANGED <<visVars, errors, walkVars, runVars>>

\* __remove_exceptions is called again with the same unfiltered Check Results
RunAgain ==
    /\ pc = "done"
    /\ run = 1
    /\ first_output' = results
    /\ results' = unfiltered
    /\ run' = 2
    /\ pc' = "start"
    /\ UNCHANGED <<ignore, worktree, unfiltered, ignored_codes, file_dict, ignored_errors,
                   todo_files, cur_file, file_lines, todo_lines, ignorefile>>
    /\ UNCHANGED <<visVars, errors, walkVars, runVars>>

(***************************************************************************)
(* InternalStandardsChecker.__find_errors on one parsed file               *)
(***************************************************************************)

\* the most positional arguments of a call
MaxArgs == 2

StrLit(s, l, c)  == AstNode("Str", l, c, s, <<>>, <<>>)
NumLit(l, c)     == AstNode("Num", l, c, "", <<>>, <<>>)
NameExpr(id, l, c) == AstNode("Name", l, c, id, <<>>, <<>>)
AttrExpr(value, attr, l, c) == AstNode("Attribute", l, c, attr, <<>>, <<value>>)
CallExpr(func, args, l, c) == AstNode("Call", l, c, "", <<>>, <<func>> \o args)
ExprStmt(value)  == AstNode("Expr", value.lineno, value.col_offset, "", <<>>, <<value>>)
ImportStmt(names, l) == AstNode("Import", l, 0, "", names, <<>>)
ImportFromStmt(mod, l) == AstNode("ImportFrom", l, 0, mod, <<>>, <<>>)
ModuleOf(body)   == AstNode("Module", 0, 0, "", <<>>, body)

\* the string literals of the audited files
LiteralPool == {"/tmp/x", "C:\\x", "lib/x"}

ArgKinds == LiteralPool \cup {"<num>", "<reload(m)>", "<f('/tmp/x')>"}

\* the expression of one kind at line l, column c
ExprOfKind(k, l, c) ==
    CASE k = "<num>"          -> NumLit(l, c)
      [] k = "<name f>"       -> NameExpr("f", l, c)
      [] k = "<name reload>"  -> NameExpr("reload", l, c)
      [] k = "<m.reload>"     -> AttrExpr(NameExpr("m", l, c), "reload", l, c)
      [] k = "<reload(m)>"    ->
            CallExpr(NameExpr("reload", l, c), <<NameExpr("m", l, c + 7)>>, l, c)
      [] k = "<f('/tmp/x')>"  ->
            CallExpr(NameExpr("f", l, c), <<StrLit("/tmp/x", l, c + 2)>>, l, c)
      [] OTHER                -> StrLit(k, l, c)

FuncKinds == {"<name f>", "<name reload>", "<m.reload>", "<reload(m)>", "<f('/tmp/x')>"}

\* a call statement on line 1 with one argument per following line
CallStmts ==
    { ExprStmt(CallExpr(ExprOfKind(fk, 1, 0),
                        [i \in 1..Len(aks) |-> ExprOfKind(aks[i], 1 + i, 4)], 1, 0)) :
        fk \in FuncKinds, aks \in UNION {[1..n -> ArgKinds] : n \in 0..MaxArgs} }

BareStmts == {ExprStmt(StrLit(s, 1, 0)) : s \in LiteralPool}

ImportStmts ==
    {ImportStmt(names, 1) : names \in {<<"foo">>, <<"foo.bar">>, <<"foobar">>, <<"os", "foo.baz">>}}
    \cup {ImportFromStmt(mod, 1) : mod \in {"", "foo", "foo.bar.x", "foobar", "os"}}

\* module_dict.get(dirname): None, or the dotted name of the file's directory
ModulePool ==
    {[some |-> FALSE, name |-> ""]} \cup {[some |-> TRUE, name |-> nm] : nm \in {"", "foo", "foo.bar"}}

\* the file __find_errors is called for, and the directory being checked
VisitedFile == "/proj/foo/m.py"

VisitedRoot == "/proj"

\* the Suppression Engine before CodeChecker runs
SupIdle ==
    /\ pc = "idle"
    /\ ignore = NoPolicy
    /\ ignorefile = NoPolicy
    /\ worktree = <<>>
    /\ unfiltered = <<>>
    /\ results = <<>>
    /\ run = 0
    /\ ignored_codes = <<>>
    /\ file_dict = <<>>
    /\ ignored_errors = <<>>
    /\ todo_files = {}
    /\ cur_file = ""
    /\ file_lines = <<>>
    /\ todo_lines = {}
    /\ first_output = <<>>

\* ast.parse(contents) has returned the tree of a one-statement file
InitVisit ==
    /\ RunIdle
    /\ SupIdle
    /\ WalkIdle
    /\ vpc = "parsed"
    /\ \/ node \in {ModuleOf(<<st>>) : st \in CallStmts \cup BareStmts}
          /\ module = [some |-> TRUE, name |-> "foo"]
       \/ node \in {ModuleOf(<<st>>) : st \in ImportStmts}
          /\ module \in ModulePool
    /\ violations = <<>>
    /\ errors = <<>>

\* internal.py 164-167: visitor = NodeVisitor(module); visitor.visit(node)
RunVisitor ==
    /\ vpc = "parsed"
    /\ violations' = Visit(node, module)
    /\ vpc' = "visited"
    /\ UNCHANGED <<node, module, errors>>
    /\ UNCHANGED <<supVars, walkVars, runVars>>

\* internal.py 169-170: every violation is rendered into self.errors
AddVisitorErrors ==
    /\ vpc = "visited"
    /\ errors' = AddViolations(errors, violations, VisitedFile, VisitedRoot)
    /\ vpc' = "reported"
    /\ UNCHANGED <<node, module, violations>>
    /\ UNCHANGED <<supVars, walkVars, runVars>>

NextVisit == RunVisitor \/ AddVisitorErrors

SpecVisit == InitVisit /\ [][NextVisit]_vars

(***************************************************************************)
(* InternalStandardsChecker.run_checks on a directory: the Tree Walker     *)
(***************************************************************************)

\* a parsed file with an absolute-path literal
TreeWithLiteral == ModuleOf(<<ExprStmt(StrLit("/tmp/x", 1, 0))>>)

\* a parsed file importing a module of package foo, and calling reload
TreeWithImport ==
    ModuleOf(<<ImportStmt(<<"foo.util">>, 1),
               ExprStmt(CallExpr(NameExpr("reload", 2, 0), <<NameExpr("foo", 2, 7)>>, 2, 0))>>)

NoTree == ModuleOf(<<>>)

\* the kinds of source file the walk may meet
FilePool ==
    { SourceFile(TRUE, TRUE, "'/tmp/x'\n", TRUE, TreeWithLiteral),
      SourceFile(TRUE, TRUE, "import foo.util\nreload(foo)\n", TRUE, TreeWithImport),
      SourceFile(TRUE, TRUE, "('/tmp/x'\n", FALSE, NoTree),
      SourceFile(TRUE, FALSE, "", FALSE, NoTree),
      SourceFile(FALSE, FALSE, "", FALSE, NoTree) }

\* an empty package marker file
MarkerFile == SourceFile(TRUE, TRUE, "", TRUE, NoTree)

\* the .gitignore texts of the project root; "<absent>" for no file
GitignorePool == {"<absent>", "*.pyc\n.*.swp\n.idea\n*~\n", "*.pyc\n"}

TextFile(text) == SourceFile(TRUE, TRUE, text, FALSE, NoTree)

\* the project /proj: a.py and README at the root, the directory foo with m.py, and
\* foo/bar with N.PY; foo and foo/bar may hold the package marker
ProjectDisk(fa, fm, initFoo, initBar, gitignore) ==
    LET paths == {"/proj/a.py", "/proj/README", "/proj/foo/m.py", "/proj/foo/bar/N.PY"}
                 \cup (IF initFoo THEN {"/proj/foo/__init__.py"} ELSE {})
                 \cup (IF initBar THEN {"/proj/foo/bar/__init__.py"} ELSE {})
                 \cup (IF gitignore # "<absent>" THEN {"/proj/.gitignore"} ELSE {})
    IN  [f \in paths |->
            CASE f = "/proj/a.py" -> fa
              [] f = "/proj/foo/m.py" -> fm
              [] f = "/proj/foo/bar/N.PY" ->
                    SourceFile(TRUE, TRUE, "import foo.util\nreload(foo)\n", TRUE, TreeWithImport)
              [] f = "/proj/README" -> TextFile("readme\n")
              [] f = "/proj/.gitignore" -> TextFile(gitignore)
              [] OTHER -> MarkerFile]

\* what os.walk(rootdir) yields, top down: each directory with its files
WalkOf(d, root) ==
    LET filesOf(dir, names) == SelectSeq(names, LAMBDA nm : (dir \o "/" \o nm) \in DOMAIN d)
        exists(dir) == \E f \in DOMAIN d : StartsWith(f, dir \o "/")
    IN  SelectSeq(
          << <<root, filesOf(root, <<".gitignore", "README", "a.py">>)>>,
             <<root \o "/foo", filesOf(root \o "/foo", <<"__init__.py", "m.py">>)>>,
             <<root \o "/foo/bar", filesOf(root \o "/foo/bar", <<"N.PY", "__init__.py">>)>> >>,
          LAMBDA entry : entry[1] = root \/ exists(entry[1]))

\* run_checks is called on the directory /proj
InitWalk ==
    /\ RunIdle
    /\ SupIdle
    /\ VisIdle
    /\ errors = <<>>
    /\ wpc = "walk"
    /\ directory = "/proj"
    /\ \E fa \in FilePool, fm \in FilePool, initFoo \in BOOLEAN, initBar \in BOOLEAN,
          gitignore \in GitignorePool :
          disk = ProjectDisk(fa, fm, initFoo, initBar, gitignore)
    /\ walk_todo = WalkOf(disk, directory)
    /\ cur_subdir = ""
    /\ files_todo = <<>>
    /\ module_dict = [d \in {} |-> ""]
    /\ audited = {}

\* internal.py 68-70: os.walk yields the next directory; a package marker among its
\* files records the directory in module_dict
EnterDirectory ==
    /\ wpc = "walk"
    /\ files_todo = <<>>
    /\ walk_todo # <<>>
    /\ LET subdir == Head(walk_todo)[1]
           files  == Head(walk_todo)[2]
       IN  /\ module_dict' = IF "__init__.py" \in SeqToSet(files)
                             THEN AddDirToModules(module_dict, subdir)
                             ELSE module_dict
           /\ cur_subdir' = subdir
           /\ files_todo' = files
    /\ walk_todo' = Tail(walk_todo)
    /\ UNCHANGED <<wpc, directory, disk, audited, errors>>
    /\ UNCHANGED <<supVars, visVars, runVars>>

\* internal.py 72-76: the next file of the directory; a .py file is audited
AuditFile ==
    /\ wpc = "walk"
    /\ files_todo # <<>>
    /\ LET file     == Head(files_todo)
           filepath == cur_subdir \o "/" \o file
       IN  IF StrLower(SplitExt(file)) = ".py"
           THEN LET out == CheckFile(errors, disk[filepath], filepath, directory, module_dict)
                IN  IF out.raised
                    THEN /\ wpc' = "raised"
                         /\ UNCHANGED <<errors, audited, files_todo>>
                    ELSE /\ errors' = out.errors
                         /\ audited' = audited \cup {filepath}
                         /\ files_todo' = Tail(files_todo)
                         /\ wpc' = wpc
           ELSE /\ files_todo' = Tail(files_todo)
                /\ UNCHANGED <<wpc, errors, audited>>
    /\ UNCHANGED <<directory, disk, walk_todo, cur_subdir, module_dict>>
    /\ UNCHANGED <<supVars, visVars, runVars>>

\* internal.py 77-78: after the walk, the root-level checks; run_checks returns
CheckRoot ==
    /\ wpc = "walk"
    /\ files_todo = <<>>
    /\ walk_todo = <<>>
    /\ errors' = CheckRootErrors(errors, (directory \o "/.gitignore") \in DOMAIN disk,
                     IF (directory \o "/.gitignore") \in DOMAIN disk
                     THEN disk[directory \o "/.gitignore"].contents ELSE "",
                     directory)
    /\ wpc' = "done"
    /\ UNCHANGED <<directory, disk, walk_todo, cur_subdir, files_todo, module_dict, audited>>
    /\ UNCHANGED <<supVars, visVars, runVars>>

NextWalk == EnterDirectory \/ AuditFile \/ CheckRoot

SpecWalk == InitWalk /\ [][NextWalk]_vars

(***************************************************************************)
(* InternalStandardsChecker.run_checks on a single file                    *)
(***************************************************************************)

\* the longest audited text, in chunks
MaxChunks == 5

Chunk60 == "abcdefghi abcdefghi abcdefghi abcdefghi abcdefghi abcdefghi "

Chunk61 == Chunk60 \o "#"

ChunkPool == {"\n", Chunk60, Chunk61}

RECURSIVE ConcatAll(_)
ConcatAll(q) == IF Len(q) = 0 THEN "" ELSE Head(q) \o ConcatAll(Tail(q))

ChunkTexts == {ConcatAll(q) : q \in UNION {[1..n -> ChunkPool] : n \in 0..MaxChunks}}

\* run_checks is called with a file as the directory
InitFile ==
    /\ RunIdle
    /\ SupIdle
    /\ VisIdle
    /\ errors = <<>>
    /\ wpc = "file"
    /\ directory = "/proj/a.py"
    /\ \/ \E text \in ChunkTexts, parses \in BOOLEAN :
             disk = [f \in {directory} |->
                        SourceFile(TRUE, TRUE, text, parses, IF parses THEN TreeWithLiteral ELSE NoTree)]
       \/ \E readable \in {FALSE}, openable \in BOOLEAN :
             disk = [f \in {directory} |-> SourceFile(openable, readable, "", FALSE, NoTree)]
    /\ walk_todo = <<>>
    /\ cur_subdir = ""
    /\ files_todo = <<>>
    /\ module_dict = [d \in {} |-> ""]
    /\ audited = {}

\* internal.py 61-63 and 78: os.path.isfile(rootdir): the file is audited, run_checks returns
CheckRootFile ==
    /\ wpc = "file"
    /\ LET out == CheckFile(errors, disk[directory], directory, directory, module_dict)
       IN  IF out.raised
           THEN /\ wpc' = "raised"
                /\ UNCHANGED <<errors, audited>>
           ELSE /\ errors' = out.errors
                /\ audited' = audited \cup {directory}
                /\ wpc' = "done"
    /\ UNCHANGED <<directory, disk, walk_todo, cur_subdir, files_todo, module_dict>>
    /\ UNCHANGED <<supVars, visVars, runVars>>

NextFile == CheckRootFile

SpecFile == InitFile /\ [][NextFile]_vars

(***************************************************************************)
(* CodeChecker.run_checks, with the collaborators it calls                 *)
(***************************************************************************)

\* CodeChecker.directory
CheckerDirectory == "/proj"

\* what tempfile.mkdtemp() returns
TempDir == "/tmp/snap"

\* the a.py of the working tree: with an approved literal, with an unapproved one, or
\* not openable
RunFilePool ==
    { SourceFile(TRUE, TRUE, "'/tmp/x'  # BE001\n", TRUE, TreeWithLiteral),
      SourceFile(TRUE, TRUE, "'/tmp/x'\n", TRUE, TreeWithLiteral),
      SourceFile(FALSE, FALSE, "", FALSE, NoTree) }

\* the a.py of the VCS index
IndexFilePool ==
    { SourceFile(TRUE, TRUE, "'/tmp/x'  # BE001\n", TRUE, TreeWithLiteral),
      SourceFile(TRUE, TRUE, "'/tmp/x'\n", TRUE, TreeWithLiteral) }

RunPolicies == {NoPolicy, Policy({"codes"}, <<"N806">>, <<>>, <<>>, <<>>)}

OptionsPool ==
    { Options(g[1], g[2], p, l[1], l[2], ns) :
        g \in {<<FALSE, FALSE>>, <<TRUE, FALSE>>, <<TRUE, TRUE>>},
        p \in BOOLEAN,
        l \in {<<FALSE, FALSE>>, <<TRUE, TRUE>>},
        ns \in {"", "team"} }

EnvPool ==
    { Env(g, f, r) : g \in {"ok", "not_a_repo", "missing"},
                     f \in {"clean", "violations", "raises"},
                     r \in {"git@host:team/repo.git\n", "git@host:other/repo.git\n"} }

\* what system('git', ...) writes to its pipe for the listing commands
GitListing(e, only_staged) ==
    IF e.git # "ok" THEN ""
    ELSE IF only_staged THEN "M  a.py\n?? notes.py\n"
    ELSE "README\na.py\n"

RECURSIVE StrReplace(_, _, _)
\* s.replace(old, new), for a non-empty old
StrReplace(s, old, new) ==
    IF Len(s) < Len(old) THEN s
    ELSE IF StartsWith(s, old) THEN new \o StrReplace(StrFrom(s, Len(old) + 1), old, new)
    ELSE StrTo(s, 1) \o StrReplace(StrFrom(s, 2), old, new)

\* what flake8 prints for the directory when it does not raise
Flake8Prints(e, d, dir) ==
    IF e.flake8 = "violations" /\ (dir \o "/a.py") \in DOMAIN d
    THEN <<dir \o "/a.py:1:1: N806 variable in function should be lowercase">>
    ELSE <<>>

\* the files of CodeChecker.directory that open() can read: "./name" -> text
WorktreeOf(d) ==
    LET under == {f \in DOMAIN d : StartsWith(f, CheckerDirectory \o "/") /\ d[f].readable}
    IN  [rel \in {RelativeFilepath(f, CheckerDirectory) : f \in under} |->
            d[CheckerDirectory \o StrFrom(rel, 2)].contents]

\* checker.py 95-127: CodeChecker is constructed on the project /proj
InitRun ==
    /\ VisIdle
    /\ errors = <<>>
    /\ wpc = "idle"
    /\ directory = ""
    /\ \E fa \in RunFilePool : disk = [f \in {CheckerDirectory \o "/a.py"} |-> fa]
    /\ walk_todo = <<>>
    /\ cur_subdir = ""
    /\ files_todo = <<>>
    /\ module_dict = [d \in {} |-> ""]
    /\ audited = {}
    /\ pc = "idle"
    /\ ignore \in RunPolicies
    /\ ignorefile = ignore
    /\ worktree = WorktreeOf(disk)
    /\ unfiltered = <<>>
    /\ results = <<>>
    /\ run = 0
    /\ ignored_codes = <<>>
    /\ file_dict = <<>>
    /\ ignored_errors = <<>>
    /\ todo_files = {}
    /\ cur_file = ""
    /\ file_lines = <<>>
    /\ todo_lines = {}
    /\ first_output = <<>>
    /\ rpc = "start"
    /\ options \in OptionsPool
    /\ env \in EnvPool
    /\ (~options.use_git => env.git = "ok" /\ options.required_namespace = "")
    /\ (options.required_namespace = "" => env.remote = "git@host:team/repo.git\n")
    /\ \E fi \in IndexFilePool : index = [f \in {"a.py"} |-> fi]
    /\ listed = <<>>
    /\ scan_dir = ""
    /\ checks_todo = <<>>
    /\ run_results = <<>>
    /\ log = "Checks have not yet been run"
    /\ returned = NoReturn

\* checker.py 337-343: the mode of the run; in VCS mode with a required namespace the
\* remote is asked for first, and another namespace ends the run with no result
BeginRun ==
    /\ rpc = "start"
    /\ IF options.use_git
       THEN IF options.required_namespace # ""
            THEN IF env.git = "missing"
                 THEN rpc' = "raised"
                 ELSE IF NamespaceOf(IF env.git = "ok" THEN env.remote ELSE "")
                            # options.required_namespace
                 THEN rpc' = "returned"
                 ELSE rpc' = "list"
            ELSE rpc' = "list"
       ELSE rpc' = "checks"
    /\ scan_dir' = IF options.use_git THEN scan_dir ELSE CheckerDirectory
    /\ checks_todo' = IF options.use_git THEN checks_todo ELSE options.checks
    /\ UNCHANGED <<options, env, index, listed, run_results, log, returned>>
    /\ UNCHANGED <<supVars, visVars, errors, walkVars>>

\* checker.py 305-314: the tracked or staged files are listed and the scratch directory
\* is made; the exit code of the listing is not looked at
ListFiles ==
    /\ rpc = "list"
    /\ IF env.git = "missing"
       THEN /\ rpc' = "raised"
            /\ UNCHANGED <<listed, scan_dir, checks_todo>>
       ELSE /\ listed' = ListedNames(GitListing(env, options.only_staged), options.only_staged)
            /\ scan_dir' = TempDir
            /\ rpc' = IF listed' = <<>> THEN "checks" ELSE "snapshot"
            /\ checks_todo' = IF listed' = <<>> THEN options.checks ELSE checks_todo
    /\ UNCHANGED <<options, env, index, run_results, log, returned>>
    /\ UNCHANGED <<supVars, visVars, errors, walkVars>>

\* checker.py 315-321: the next listed name is written into the scratch directory with
\* what git show prints for it; the exit code is not looked at
ShowFile ==
    /\ rpc = "snapshot"
    /\ listed # <<>>
    /\ LET name     == Head(listed)
           filename == scan_dir \o "/" \o name
           shown    == IF name \in DOMAIN index THEN index[name] ELSE TextFile("")
       IN  disk' = [f \in DOMAIN disk \cup {filename} |->
                       IF f = filename THEN shown ELSE disk[f]]
    /\ listed' = Tail(listed)
    /\ rpc' = IF listed' = <<>> THEN "checks" ELSE "snapshot"
    /\ checks_todo' = IF listed' = <<>> THEN options.checks ELSE checks_todo
    /\ UNCHANGED <<options, env, index, scan_dir, run_results, log, returned>>
    /\ UNCHANGED <<wpc, directory, walk_todo, cur_subdir, files_todo, module_dict, audited>>
    /\ UNCHANGED <<supVars, visVars, errors>>

\* where the run goes once a check has returned: the next check, the pruning or the report
AfterCheck(todo) ==
    IF todo # <<>> THEN "checks" ELSE IF options.prune_errors THEN "prune" ELSE "log"

\* checker.py 133-140 and 146-147: the flake8 check; what flake8 raises is not caught
RunFlake8 ==
    /\ rpc = "checks"
    /\ checks_todo # <<>>
    /\ Head(checks_todo) = CHECKS_FLAKE8
    /\ IF env.flake8 = "raises"
       THEN /\ rpc' = "raised"
            /\ UNCHANGED <<run_results, checks_todo>>
       ELSE LET captured_output == Flake8Prints(env, disk, scan_dir)
                output == [k \in 1..Len(captured_output) |->
                              StrReplace(captured_output[k], scan_dir, ".")]
                num_violations == Len(output)
            IN  /\ run_results' = Append(run_results,
                       CheckResult(CHECKS_FLAKE8, output, num_violations,
                                   IF num_violations # 0 THEN 1 ELSE 0))
                /\ checks_todo' = Tail(checks_todo)
                /\ rpc' = AfterCheck(checks_todo')
    /\ UNCHANGED <<options, env, index, listed, scan_dir, log, returned>>
    /\ UNCHANGED <<supVars, visVars, errors, walkVars>>

\* checker.py 141-142 and internal.py 47-51, 60-66: the internal checker is constructed
\* on the scanned directory and its run_checks starts the walk
StartBfx ==
    /\ rpc = "checks"
    /\ checks_todo # <<>>
    /\ Head(checks_todo) = CHECKS_BFX
    /\ directory' = scan_dir
    /\ errors' = <<>>
    /\ module_dict' = [d \in {} |-> ""]
    /\ walk_todo' = WalkOf(disk, scan_dir)
    /\ cur_subdir' = ""
    /\ files_todo' = <<>>
    /\ audited' = {}
    /\ wpc' = "walk"
    /\ rpc' = "bfx"
    /\ UNCHANGED <<options, env, index, listed, scan_dir, checks_todo, run_results, log, returned>>
    /\ UNCHANGED <<supVars, visVars, disk>>

\* checker.py 142-147: run_checks of the internal checker has returned its errors
FinishBfx ==
    /\ rpc = "bfx"
    /\ wpc = "done"
    /\ LET output == errors
           num_violations == Len(output)
       IN  run_results' = Append(run_results,
               CheckResult(CHECKS_BFX, output, num_violations,
                           IF num_violations # 0 THEN 1 ELSE 0))
    /\ checks_todo' = Tail(checks_todo)
    /\ rpc' = AfterCheck(checks_todo')
    /\ UNCHANGED <<options, env, index, listed, scan_dir, log, returned>>
    /\ UNCHANGED <<supVars, visVars, errors, walkVars>>

\* checker.py 300-301: __remove_exceptions is called with the results of the checks
StartPrune ==
    /\ rpc = "prune"
    /\ unfiltered' = run_results
    /\ results' = run_results
    /\ run' = 1
    /\ pc' = "start"
    /\ rpc' = "pruning"
    /\ UNCHANGED <<ignore, worktree, ignored_codes, file_dict, ignored_errors, todo_files,
                   cur_file, file_lines, todo_lines, first_output, ignorefile>>
    /\ UNCHANGED <<visVars, errors, walkVars, runVars_but_rpc>>

\* checker.py 314-323 and 345-356: the scratch directory is removed, the report is made
\* and written, and the results are returned
WriteLog ==
    /\ \/ rpc = "log"
       \/ rpc = "pruning" /\ pc = "done"
    /\ LET rs      == IF options.prune_errors THEN results ELSE run_results
           made    == CreateLog(rs)
           kept    == {f \in DOMAIN disk : ~(options.use_git /\ StartsWith(f, TempDir \o "/"))}
           logpath == CheckerDirectory \o "/" \o options.logfile_name
       IN  IF made.raised
           THEN /\ rpc' = "raised"
                /\ disk' = [f \in kept |-> disk[f]]
                /\ UNCHANGED <<log, returned, index, worktree>>
           ELSE /\ log' = made.log
                /\ disk' = IF options.write_log
                           THEN [f \in kept \cup {logpath} |->
                                    IF f = logpath THEN TextFile(made.log) ELSE disk[f]]
                           ELSE [f \in kept |-> disk[f]]
                /\ worktree' = WorktreeOf(disk')
                /\ index' = IF options.use_git /\ options.write_log /\ options.add_log_to_git
                               /\ env.git = "ok"
                            THEN [f \in DOMAIN index \cup {options.logfile_name} |->
                                     IF f = options.logfile_name THEN TextFile(made.log)
                                     ELSE index[f]]
                            ELSE index
                /\ returned' = [some |-> TRUE, results |-> rs]
                /\ rpc' = "done"
    /\ UNCHANGED <<options, env, listed, scan_dir, checks_todo, run_results>>
    /\ UNCHANGED <<pc, ignore, unfiltered, results, run, ignored_codes, file_dict,
                   ignored_errors, todo_files, cur_file, file_lines, todo_lines,
                   first_output, ignorefile>>
    /\ UNCHANGED <<wpc, directory, walk_todo, cur_subdir, files_todo, module_dict, audited>>
    /\ UNCHANGED <<visVars, errors>>

NextRun ==
    \/ BeginRun
    \/ ListFiles
    \/ ShowFile
    \/ RunFlake8
    \/ StartBfx
    \/ EnterDirectory
    \/ AuditFile
    \/ CheckRoot
    \/ FinishBfx
    \/ StartPrune
    \/ SetUpIgnoredCodes
    \/ BuildFileDict
    \/ OpenOffendingFile
    \/ ApproveLine
    \/ FilterResults
    \/ WriteLog

SpecRun == InitRun /\ [][NextRun]_vars

(***************************************************************************)
(* CodeChecker.run_checks from the report on, for the order of the report  *)
(***************************************************************************)

\* the most lines one check reports
MaxReport == 2

\* lines the style checker may print; a message may hold a ':' of its own
Flake8ReportPool ==
    { "./a.py:2:1: X100 bad",
      "./a.py:2:1: X100 bad: detail",
      "./b.py:1:1: N806 variable in function should be lowercase" }

\* lines the internal checker may report
BfxReportPool ==
    { Rendered("./a.py", 2, 0, "BE001"),
      Rendered("./a.py", 9, 0, "BE001"),
      Rendered("./a.py", 10, 0, "BE001"),
      Rendered("", 0, 0, "BE100") }

SeqsUpTo(pool, n) == UNION {[1..k -> pool] : k \in 0..n}

\* checker.py 343-345: __run_checks has returned the unpruned results of both checks
InitSort ==
    /\ VisIdle
    /\ rpc = "log"
    /\ options = Options(FALSE, FALSE, FALSE, FALSE, FALSE, "")
    /\ env = Env("ok", "violations", "")
    /\ \E fo \in SeqsUpTo(Flake8ReportPool, MaxReport), bo \in SeqsUpTo(BfxReportPool, MaxReport) :
         /\ run_results = <<ResultOf(CHECKS_FLAKE8, fo), ResultOf(CHECKS_BFX, bo)>>
         /\ errors = bo
    /\ wpc = "done"
    /\ directory = CheckerDirectory
    /\ disk = [f \in {CheckerDirectory \o "/a.py", CheckerDirectory \o "/b.py"} |->
                  TextFile("'/tmp/x'\n")]
    /\ walk_todo = <<>>
    /\ cur_subdir = ""
    /\ files_todo = <<>>
    /\ module_dict = [d \in {} |-> ""]
    /\ audited = {}
    /\ pc = "idle"
    /\ ignore = NoPolicy
    /\ ignorefile = ignore
    /\ worktree = WorktreeOf(disk)
    /\ unfiltered = <<>>
    /\ results = <<>>
    /\ run = 0
    /\ ignored_codes = <<>>
    /\ file_dict = <<>>
    /\ ignored_errors = <<>>
    /\ todo_files = {}
    /\ cur_file = ""
    /\ file_lines = <<>>
    /\ todo_lines = {}
    /\ first_output = <<>>
    /\ index = [f \in {} |-> 0]
    /\ listed = <<>>
    /\ scan_dir = CheckerDirectory
    /\ checks_todo = <<>>
    /\ log = "Checks have not yet been run"
    /\ returned = NoReturn

NextSort == WriteLog

SpecSort == InitSort /\ [][NextSort]_vars

Init == InitSuppress /\ VisIdle /\ WalkIdle /\ RunIdle /\ errors = <<>>

Next ==
    \/ SetUpIgnoredCodes
    \/ BuildFileDict
    \/ OpenOffendingFile
    \/ ApproveLine
    \/ FilterResults
    \/ RunAgain

Spec == Init /\ [][Next]_vars

(***************************************************************************)
(* Properties of the Suppression Engine                                    *)
(***************************************************************************)

\* the built-in blacklist, code by code
BuiltinBlacklist == {"W291", "W292", "W293", "W391", "E501"}

PolicyCodes(ign) == IF ign.isNone \/ "codes" \notin ign.keys THEN {} ELSE SeqToSet(ign.codes)

\* the index of the first '#' of a text, 0 when it has none
FirstHash(text) ==
    LET hits == {i \in 1..Len(text) : CharAt(text, i) = "#"}
    IN  IF hits = {} THEN 0 ELSE CHOOSE i \in hits : \A j \in hits : i <= j

\* the comment portion of a physical line: the text after its first '#'
CommentPortion(text) == IF FirstHash(text) = 0 THEN "" ELSE StrFrom(text, FirstHash(text) + 1)

\* the code occurs in the comment portion of 1-based line m of file f
CodeInCommentOfLine(f, m, code) ==
    /\ f \in DOMAIN worktree
    /\ m \in 1..NumLines(worktree[f])
    /\ Contains(CommentPortion(StrSplit(worktree[f], "\n")[m]), code)

\* the code occurs on 1-based line m of file f, before the first '#' or anywhere
CodeOnLine(f, m, code) ==
    /\ f \in DOMAIN worktree
    /\ m \in 1..NumLines(worktree[f])
    /\ Contains(StrSplit(worktree[f], "\n")[m], code)

AllUnfilteredLines == SeqToSet(Flatten([k \in 1..Len(unfiltered) |-> unfiltered[k].output]))

AllResultLines == SeqToSet(Flatten([k \in 1..Len(results) |-> results[k].output]))

\* the rendered violations the claim on inline approval is about
InlineCandidates ==
    {line \in AllUnfilteredLines :
        /\ LineFilename(line) # ""
        /\ ~ShouldIgnoreFile(ignore, LineFilename(line))
        /\ LineCode(line) \notin BuiltinBlacklist \cup PolicyCodes(ignore)}

LineN(line) == IntOf(LineNumber(line))

\* C1 as amended: a violation reported at 1-based line N, with a path the policy does
\* not exclude and a code outside the blacklist, is suppressed if and only if its code
\* occurs in the comment portion of line N-1, N or N+1 of its file.
C1_ApprovalWindowAroundLine ==
    pc = "done" =>
        \A line \in InlineCandidates :
            (line \notin AllResultLines) <=>
                \E m \in {LineN(line) - 1, LineN(line), LineN(line) + 1} :
                    CodeInCommentOfLine(LineFilename(line), m, LineCode(line))

\* C1 witness: a violation suppressed by a comment on the line after it alone
C1_SuppressedByNextLine ==
    /\ pc = "done"
    /\ \E line \in InlineCandidates :
         /\ line \notin AllResultLines
         /\ CodeInCommentOfLine(LineFilename(line), LineN(line) + 1, LineCode(line))
         /\ ~CodeInCommentOfLine(LineFilename(line), LineN(line), LineCode(line))
         /\ ~CodeInCommentOfLine(LineFilename(line), LineN(line) - 1, LineCode(line))
         /\ CodeOnLine(LineFilename(line), LineN(line), LineCode(line))

\* C1 as stated: suppressed if and only if the code occurs in the comment portion of
\* line N, N-1 or N-2.
C1_ApprovalWindowBeforeLine ==
    pc = "done" =>
        \A line \in InlineCandidates :
            (line \notin AllResultLines) <=>
                \E m \in {LineN(line) - 2, LineN(line) - 1, LineN(line)} :
                    CodeInCommentOfLine(LineFilename(line), m, LineCode(line))

\* a line the final filter must let through
Survives(line, ign) ==
    /\ line \notin SeqToSet(ignored_errors)
    /\ ~ShouldIgnoreFile(ign, LineFilename(line))
    /\ LineCode(line) \notin BuiltinBlacklist \cup PolicyCodes(ign)

\* the policy with one more code
WithCode(ign, c) ==
    [ign EXCEPT !.isNone = FALSE, !.keys = @ \cup {"codes"}, !.codes = Append(@, c)]

\* total_violations of __create_log
TotalViolations(rs) ==
    LET counts == Flatten([k \in 1..Len(rs) |-> [i \in 1..rs[k].num_violations |-> 1]])
    IN  Len(counts)

\* the number of lines of a result that carry code c
Carrying(result, c) == Len(SelectSeq(result.output, LAMBDA line : LineCode(line) = c))

CodesSeen == {LineCode(line) : line \in AllUnfilteredLines}

C6_SecondRunSameOutput ==
    /\ ignore = ignorefile
    /\ (run = 2 /\ pc = "done") => results = first_output

\* C6 witness: the second call is done, having approved lines of two files, the file
\* listed later first
C6_SecondRunOtherOrder ==
    /\ run = 2
    /\ pc = "done"
    /\ Len(ignored_errors) = 2
    /\ LineFilename(ignored_errors[1]) = "./mylib/b.py"
    /\ LineFilename(ignored_errors[2]) = "./a.py"
    /\ results # unfiltered

\* directory d, as a path, is the file's directory or a leading part of it
IsLeadingDirectory(d, dir) == dir = d \/ StartsWith(dir, d \o "/")

\* the exclusion of a path as the policy states it: by basename, by normalized full
\* path, by lying inside a listed directory, or by a pattern
ExcludedByPolicy(ign, file_path) ==
    /\ ~ign.isNone
    /\ LET full == NormPath(file_path)
           dir  == PathSplit(full)[1]
           base == PathSplit(full)[2]
       IN  \/ "files" \in ign.keys /\ (base \in SeqToSet(ign.files) \/ full \in SeqToSet(ign.files))
           \/ /\ "directories" \in ign.keys
              /\ \E d \in SeqToSet(ign.directories) : IsLeadingDirectory(NormPath(d), dir)
           \/ /\ "patterns" \in ign.keys
              /\ \E pattern \in SeqToSet(ign.patterns) : ReSearch(pattern, full)

\* C7: a line that is neither approved nor blacklisted is dropped by the final filter if
\* and only if the policy excludes its path by basename, full path, containing directory
\* or pattern; a directory name that is only a substring of the path excludes nothing.
C7_ExcludedOnlyInsideListedDirectory ==
    pc = "done" =>
        \A line \in AllUnfilteredLines :
            (/\ line \notin SeqToSet(ignored_errors)
             /\ LineCode(line) \notin BuiltinBlacklist \cup PolicyCodes(ignore))
            => ((line \notin AllResultLines) <=> ExcludedByPolicy(ignore, LineFilename(line)))

(***************************************************************************)
(* Properties of the Rule Visitor                                          *)
(***************************************************************************)

RECURSIVE AllNodes(_)
\* every node of a syntax tree
AllNodes(n) == {n} \cup UNION {AllNodes(n.kids[i]) : i \in 1..Len(n.kids)}

VisitorHasRun == vpc \in {"visited", "reported"}

\* ^[A-Za-z]:[/\] or ^[/\][A-Za-z]
LooksAbsolute(s) ==
    \/ \E d \in 1..Len(Letters) : \E sep \in {"/", "\\"} :
           StartsWith(s, CharAt(Letters, d) \o ":" \o sep)
    \/ \E d \in 1..Len(Letters) : \E sep \in {"/", "\\"} :
           StartsWith(s, sep \o CharAt(Letters, d))

\* the string literals that are a bare expression or an argument of some call
LiteralsInScope ==
    {n \in AllNodes(node) :
        /\ n.kind = "Str"
        /\ \E parent \in AllNodes(node) :
              \/ parent.kind = "Expr" /\ parent.kids[1] = n
              \/ parent.kind = "Call" /\ \E i \in 2..Len(parent.kids) : parent.kids[i] = n}

Reported(code, line) ==
    \E i \in 1..Len(violations) : violations[i].code = code /\ violations[i].line = line

\* C2: every absolute-path string literal of a parsed file, as a bare expression or as
\* an argument of a call at any position and any nesting, yields BE001 at its line.
C2_EveryAbsoluteLiteralReported ==
    VisitorHasRun =>
        \A n \in LiteralsInScope : LooksAbsolute(n.s) => Reported("BE001", n.lineno)

\* C8: every call whose callee is the bare name reload yields BE004 at the call's line,
\* wherever the call sits.
C8_EveryReloadCallReported ==
    VisitorHasRun =>
        \A n \in AllNodes(node) :
            (n.kind = "Call" /\ n.kids[1].kind = "Name" /\ n.kids[1].s = "reload")
                => Reported("BE004", n.lineno)

\* the modules an import statement names
ImportTargets(n) ==
    IF n.kind = "Import" THEN SeqToSet(n.names)
    ELSE IF n.kind = "ImportFrom" THEN {n.s}
    ELSE {}

\* the target is package P itself or a dotted descendant of it
InPackage(target, P) == target = P \/ StartsWith(target, P \o ".")

\* C9: with package name P an import is flagged BE006 exactly when its target is P or a
\* dotted descendant of P (never for a name that only shares leading characters with
\* P); with an empty or absent package name nothing is flagged.
C9_OnlyOwnPackageImportsFlagged ==
    VisitorHasRun =>
        \A n \in AllNodes(node) : \A target \in ImportTargets(n) :
            (\E i \in 1..Len(violations) :
                 violations[i].code = "BE006" /\ violations[i].value = target)
            <=> (module.some /\ module.name # "" /\ target # "" /\ InPackage(target, module.name))

(***************************************************************************)
(* Properties of the File Auditor and the Tree Walker                      *)
(***************************************************************************)

\* the positions where a physical line of more than 120 characters starts
LongLineStarts(text) ==
    {p \in 1..Len(text) :
        /\ (p = 1 \/ CharAt(text, p - 1) = "\n")
        /\ p + 120 <= Len(text)
        /\ \A j \in p..(p + 120) : CharAt(text, j) # "\n"}

\* the 1-based number of the physical line that starts at position p
LineNumberAt(text, p) == 1 + Cardinality({i \in 1..(p - 1) : CharAt(text, i) = "\n"})

LongLineNumbers(text) == {LineNumberAt(text, p) : p \in LongLineStarts(text)}

ErrorsWithCode(code) == SelectSeq(errors, LAMBDA line : LineCode(line) = code)

\* C10: for a readable file the BE003 lines are exactly one per physical line longer
\* than 120 characters, at that line's 1-based number and column 0, whether or not the
\* file parses.
C10_OneBE003PerLongLine ==
    (wpc = "done" /\ disk[directory].readable) =>
        LET long  == LongLineNumbers(disk[directory].contents)
            be003 == ErrorsWithCode("BE003")
        IN  /\ Len(be003) = Cardinality(long)
            /\ \A i \in 1..Len(be003) :
                 /\ IntOf(LineNumber(be003[i])) \in long
                 /\ StrSplit(be003[i], ":")[3] = "0"
            /\ \A n \in long :
                 Cardinality({i \in 1..Len(be003) : IntOf(LineNumber(be003[i])) = n}) = 1

\* C10 witness: a file that does not parse, with two long lines, both reported
C10_TwoLongLinesUnparsed ==
    /\ wpc = "done"
    /\ disk[directory].readable
    /\ ~disk[directory].parses
    /\ Cardinality(LongLineNumbers(disk[directory].contents)) = 2
    /\ Len(ErrorsWithCode("BE003")) = 2

\* the source files of the walked directory
SourceFiles == {f \in DOMAIN disk : StrLower(SplitExt(PathSplit(f)[2])) = ".py"}

\* a source file that cannot be opened, read or parsed
IsBadFile(f) == ~disk[f].openable \/ ~disk[f].readable \/ ~disk[f].parses

ErrorsOfFile(f, codes) ==
    SelectSeq(errors, LAMBDA line :
        LineFilename(line) = "./" \o StrFrom(f, Len(directory) + 2) /\ LineCode(line) \in codes)

\* C3: a source file that cannot be opened, read or parsed gets exactly one BE002 line
\* at 0:0 and no Rule Visitor violation; every other source file is still audited and
\* the root-level checks are made; the walk never aborts.
C3_BadFileContained ==
    /\ wpc # "raised"
    /\ wpc = "done" =>
         /\ \A f \in SourceFiles :
              /\ f \in audited
              /\ IsBadFile(f) =>
                   /\ Len(ErrorsOfFile(f, {"BE002"})) = 1
                   /\ StrSplit(ErrorsOfFile(f, {"BE002"})[1], ":")[2] = "0"
                   /\ StrSplit(ErrorsOfFile(f, {"BE002"})[1], ":")[3] = "0"
                   /\ Len(ErrorsOfFile(f, {"BE001", "BE004", "BE006"})) = 0
         /\ \/ \E i \in 1..Len(errors) : LineFilename(errors[i]) = ""
            \/ /\ (directory \o "/.gitignore") \in DOMAIN disk
               /\ {"*.pyc", ".*.swp", ".idea", "*~"} \subseteq
                      SeqToSet(StrSplit(disk[directory \o "/.gitignore"].contents, "\n"))
(***************************************************************************)
(* Properties of CodeChecker.run_checks                                    *)
(***************************************************************************)

\* the style checker raised, or a VCS command of a VCS-mode run failed
Flake8Failed == env.flake8 = "raises"

VcsFailed == options.use_git /\ env.git # "ok"

\* a Check Result that reports its source as failed: no violation and an error indicator
IsDegraded(r) == r.num_violations = 0 /\ r.return_code # 0

ReturnedOfType(type) ==
    {k \in 1..Len(returned.results) : returned.results[k].type = type}

\* C4: when flake8 or a VCS command fails the run does not abort, the failing source is
\* returned as a Check Result with zero violations and an error indicator, and every
\* other source is in the returned results and in the report with its lines and count.
C4_CollaboratorFailureContained ==
    (Flake8Failed \/ VcsFailed) =>
        /\ rpc # "raised"
        /\ (rpc = "done" /\ returned.some) =>
             /\ Flake8Failed =>
                  \E k \in ReturnedOfType(CHECKS_FLAKE8) : IsDegraded(returned.results[k])
             /\ VcsFailed =>
                  \E k \in 1..Len(returned.results) : IsDegraded(returned.results[k])
             /\ \A type \in SeqToSet(options.checks) :
                  \E k \in ReturnedOfType(type) :
                     /\ Contains(log, type \o " violations: "
                                      \o StrOf(returned.results[k].num_violations))
                     /\ \A i \in 1..Len(returned.results[k].output) :
                          Contains(log, returned.results[k].output[i])
(***************************************************************************)
(* Properties of the report                                                *)
(***************************************************************************)

\* field x comes before field y: as integers when both are, lexically otherwise
FieldBefore(x, y) ==
    IF IsInt(x) /\ IsInt(y) THEN IntOf(x) < IntOf(y) ELSE StrCmp(x, y) < 0

\* line a comes before line b: the first ':'-delimited field that differs decides
LineBefore(a, b) ==
    LET fa == StrSplit(a, ":")
        fb == StrSplit(b, ":")
    IN  \E i \in 1..Len(fa) :
          /\ i <= Len(fb)
          /\ FieldBefore(fa[i], fb[i])
          /\ \A j \in 1..(i - 1) : ~FieldBefore(fa[j], fb[j]) /\ ~FieldBefore(fb[j], fa[j])

\* the violation lines of the report, in the report's order
ReportedLines ==
    LET lines == StrSplit(log, "\n")
    IN  SubSeq(lines, 3, 2 + TotalOf(returned.results))

\* C11: the report is made for every set of lines, pairs with different numbers of
\* fields included, and lists the lines so that no line comes after a line it precedes
\* field by field (integers as integers, other fields lexically).
C11_ReportOrdered ==
    /\ rpc # "raised"
    /\ rpc = "done" =>
         \A i \in 1..Len(ReportedLines) : \A j \in (i + 1)..Len(ReportedLines) :
            ~LineBefore(ReportedLines[j], ReportedLines[i])
(***************************************************************************)
(* Properties of the Module Path Table                                     *)
(***************************************************************************)

\* the directory holds the package marker file
HasMarker(dir) == (dir \o "/__init__.py") \in DOMAIN disk

\* the name a directory is recorded under: the parent's recorded name, a dot and the
\* basename, or the basename alone when the parent has no entry
RecordedName(table, dir) ==
    IF DirName(dir) \in DOMAIN table
    THEN table[DirName(dir)] \o "." \o PathSplit(dir)[2]
    ELSE PathSplit(dir)[2]

\* C12: when a file is audited the table already holds the entry of the file's
\* directory if that directory holds the marker file, with the value built from the
\* parent's entry; and no step changes or removes an entry of the table.
C12_TableReadyAndStable ==
    [][ /\ \A f \in audited' \ audited :
             HasMarker(DirName(f)) =>
                 /\ DirName(f) \in DOMAIN module_dict
                 /\ module_dict[DirName(f)] = RecordedName(module_dict, DirName(f))
        /\ \A d \in DOMAIN module_dict :
             /\ d \in DOMAIN module_dict'
             /\ module_dict'[d] = module_dict[d] ]_vars

\* C12 witness: a file of foo/bar is audited with foo and foo/bar both recorded, and a
\* file of the root, which holds no marker, was audited before
C12_NestedPackageAudited ==
    /\ "/proj/foo/bar/N.PY" \in audited
    /\ "/proj/a.py" \in audited
    /\ "/proj" \notin DOMAIN module_dict
    /\ "/proj/foo" \in DOMAIN module_dict
    /\ "/proj/foo/bar" \in DOMAIN module_dict
    /\ module_dict["/proj/foo"] = "foo"
    /\ module_dict["/proj/foo/bar"] = "foo.bar"
(***************************************************************************)
(* Properties of the run in VCS mode                                       *)
(***************************************************************************)

\* the file of the scanned directory that a rendered path names
ScannedPath(filename) == scan_dir \o StrFrom(filename, 2)

\* C13: the lookup of inline approvals never fails for want of a working-tree file, and
\* the lines it reads for a file are the lines of that file in the directory that was
\* scanned (the scratch copy in VCS mode).
C13_ApprovalReadsAuditedContent ==
    rpc = "pruning" =>
        /\ pc # "raised"
        /\ pc = "lines" =>
             /\ ScannedPath(cur_file) \in DOMAIN disk
             /\ file_lines = FileLinesOf(disk[ScannedPath(cur_file)].contents)
====
